---------------------------- MODULE Spec2Model ----------------------------
(***************************************************************************)
(* A model of ctf_converter.py: the Converter class, which converts byte   *)
(* values between decimal, text, hex and binary form and XORs them.        *)
(*                                                                         *)
(* The converter holds no state of its own.  The model's state is the last *)
(* call made on it and what that call produced; every public method is one *)
(* action, which draws its arguments from bounded sets.                    *)
(* load_data, which only reads a file, is left out.                        *)
(*                                                                         *)
(* Representation of Python values:                                        *)
(*   int        an integer                                                 *)
(*   character  Chr(n), the record [cp |-> n] (the code point n)           *)
(*   str        a sequence of characters                                   *)
(*   list       a sequence                                                 *)
(*                                                                         *)
(* A call and its outcome are tuples that start with what tells their      *)
(* shape: the method's name, and the outcome's kind and Python type.       *)
(***************************************************************************)
EXTENDS Integers, Sequences, FiniteSets, TLC

VARIABLES call, res

vars == <<call, res>>

(***************************************************************************)
(* Bounds of the model.                                                    *)
(***************************************************************************)
MaxListLen == 3
MaxXorLen == 2
MaxHexLen == 3
MaxBinLen == 2
MaxTextLen == 3
Margin == 4

(***************************************************************************)
(* Program constants.                                                      *)
(***************************************************************************)
ByteMax == 255
TopBit == 128
OctetLen == 8
HexBase == 16

(***************************************************************************)
(* Python built-ins.                                                       *)
(***************************************************************************)
Min(a, b) == IF a <= b THEN a ELSE b

\* chr(n): the one-character string of code point n.
Chr(n) == [cp |-> n]

\* ord(c): the code point of a character.
Ord(c) == c.cp

\* A string literal, from its code points.
Str(cps) == [i \in 1..Len(cps) |-> Chr(cps[i])]

\* s[i:j] with 0 <= i (Python slice: j is clipped to len(s)).
Slice(s, i, j) == SubSeq(s, i + 1, Min(j, Len(s)))

\* s[i:]
SliceFrom(s, i) == SubSeq(s, i + 1, Len(s))

\* s.startswith("0x")
StartsWith0x(s) == Len(s) >= 2 /\ s[1] = Chr(48) /\ s[2] = Chr(120)

RECURSIVE LStripNL(_)
LStripNL(s) ==
    IF s # <<>> /\ Head(s) = Chr(10) THEN LStripNL(Tail(s)) ELSE s

RECURSIVE RStripNL(_)
RStripNL(s) ==
    IF s # <<>> /\ s[Len(s)] = Chr(10)
    THEN RStripNL(SubSeq(s, 1, Len(s) - 1))
    ELSE s

\* s.strip("\n"): every leading and every trailing newline removed.
StripNL(s) == RStripNL(LStripNL(s))

\* The characters str.strip() and int() treat as white space (code points up to 255).
IsSpace(c) == Ord(c) \in {9, 10, 11, 12, 13, 32, 133, 160}

RECURSIVE LStripSpace(_)
LStripSpace(s) ==
    IF s # <<>> /\ IsSpace(Head(s)) THEN LStripSpace(Tail(s)) ELSE s

RECURSIVE RStripSpace(_)
RStripSpace(s) ==
    IF s # <<>> /\ IsSpace(s[Len(s)])
    THEN RStripSpace(SubSeq(s, 1, Len(s) - 1))
    ELSE s

\* The value of a character as a base-16 digit, or -1 (ASCII digits and letters).
DigitValue(c) ==
    LET n == Ord(c)
    IN  IF n >= 48 /\ n <= 57 THEN n - 48
        ELSE IF n >= 97 /\ n <= 102 THEN n - 87
        ELSE IF n >= 65 /\ n <= 70 THEN n - 55
        ELSE -1

\* The digits of an int() literal after sign and prefix: base-16 digits, with
\* single underscores allowed between digits only.
RECURSIVE DigitsOk(_, _)
DigitsOk(s, prevDigit) ==
    IF s = <<>> THEN prevDigit
    ELSE IF Head(s) = Chr(95) THEN prevDigit /\ DigitsOk(Tail(s), FALSE)
    ELSE DigitValue(Head(s)) >= 0 /\ DigitsOk(Tail(s), TRUE)

RECURSIVE DigitsValue(_, _)
DigitsValue(s, acc) ==
    IF s = <<>> THEN acc
    ELSE IF Head(s) = Chr(95) THEN DigitsValue(Tail(s), acc)
    ELSE DigitsValue(Tail(s), acc * HexBase + DigitValue(Head(s)))

\* int(s, 16) on a str: [ok |-> TRUE, v |-> the value], or [ok |-> FALSE] for
\* ValueError.  White space around the literal is stripped, one sign is
\* accepted, then an optional "0x"/"0X" (and one underscore after it), then
\* the digits.
PyInt16(s) ==
    LET t == RStripSpace(LStripSpace(s))
        signed == t # <<>> /\ Ord(t[1]) \in {43, 45}
        neg == signed /\ Ord(t[1]) = 45
        u == IF signed THEN Tail(t) ELSE t
        prefixed == Len(u) >= 2 /\ u[1] = Chr(48) /\ Ord(u[2]) \in {120, 88}
        v == IF prefixed THEN SliceFrom(u, 2) ELSE u
        w == IF prefixed /\ v # <<>> /\ Head(v) = Chr(95) THEN Tail(v) ELSE v
    IN  IF DigitsOk(w, FALSE)
        THEN [ok |-> TRUE, v |-> IF neg THEN 0 - DigitsValue(w, 0) ELSE DigitsValue(w, 0)]
        ELSE [ok |-> FALSE, v |-> 0]

\* The base-16 digits of n >= 0, lowercase, most significant first.
RECURSIVE HexDigits(_)
HexDigits(n) ==
    LET d == n % HexBase
        c == IF d < 10 THEN Chr(48 + d) ELSE Chr(87 + d)
    IN  IF n < HexBase THEN <<c>> ELSE Append(HexDigits(n \div HexBase), c)

\* hex(n): "0x..." or "-0x...".
PyHex(n) ==
    IF n >= 0 THEN Str(<<48, 120>>) \o HexDigits(n)
    ELSE Str(<<45, 48, 120>>) \o HexDigits(0 - n)

(***************************************************************************)
(* Outcomes of a call.                                                     *)
(***************************************************************************)
\* A normal return of the value v, of the Python type `type`.
Ok(type, v) == <<"ok", type, v, 0>>

\* raise ConversionError(f"{what}: {v}"), after `n` elements had been converted.
Err(what, v, n) == <<"ConversionError", what, v, n>>

\* The parts of an outcome.
Kind(r) == r[1]

What(r) == r[2]

Value(r) == r[3]

Done(r) == r[4]

(***************************************************************************)
(* Single-value conversions.                                               *)
(***************************************************************************)
\* d_to_b_loop with the comparison strict: a bit is set only when more than
\* its weight remains.
RECURSIVE d_to_b_loop_gt(_, _, _, _)
d_to_b_loop_gt(i, mult, remaining, binary_string) ==
    IF i = OctetLen THEN binary_string
    ELSE IF remaining - mult > 0
         THEN d_to_b_loop_gt(i + 1, mult \div 2, remaining - mult,
                             Append(binary_string, Chr(49)))
         ELSE d_to_b_loop_gt(i + 1, mult \div 2, remaining,
                             Append(binary_string, Chr(48)))

RECURSIVE d_to_b_loop(_, _, _, _)
d_to_b_loop(i, mult, remaining, binary_string) ==
    IF i = OctetLen THEN binary_string
    ELSE IF remaining - mult >= 0
         THEN d_to_b_loop(i + 1, mult \div 2, remaining - mult,
                          Append(binary_string, Chr(49)))
         ELSE d_to_b_loop(i + 1, mult \div 2, remaining,
                          Append(binary_string, Chr(48)))

\* d_to_b keeping only the low 8 bits of its argument.
d_to_b_wrap(decimal) == d_to_b_loop(0, TopBit, decimal % 256, <<>>)

d_to_b(decimal) == d_to_b_loop(0, TopBit, decimal, <<>>)

d_to_t(decimal) == Chr(decimal)

\* d_to_h without the zero padding.
d_to_h_nopad(decimal) == SliceFrom(PyHex(decimal), 2)

d_to_h(decimal) ==
    LET hex_char == SliceFrom(PyHex(decimal), 2)
    IN  IF Len(hex_char) = 1 THEN <<Chr(48)>> \o hex_char ELSE hex_char

\* The loop of b_to_d over reversed(binary_string): position i counts from the end.
RECURSIVE b_to_d_loop(_, _, _, _)
b_to_d_loop(binary_string, i, mult, decimal) ==
    IF i = 0 THEN decimal
    ELSE b_to_d_loop(binary_string, i - 1, mult * 2,
                     IF binary_string[i] = Chr(49) THEN decimal + mult ELSE decimal)

b_to_d(binary_string) == b_to_d_loop(binary_string, Len(binary_string), 1, 0)

t_to_d(text) == Ord(text)

h_to_d(hex_char) == PyInt16(hex_char)

\* int(c) | int(d): or in place of exclusive-or.
XorBitOr(c, d) ==
    IF Ord(c) = 49 \/ Ord(d) = 49 THEN Chr(49) ELSE Chr(48)

\* int(c) ^ int(d) for two bit characters, as str.
XorBit(c, d) ==
    LET x == ((Ord(c) - 48) + (Ord(d) - 48)) % 2
    IN  Chr(48 + x)

xor_b(binary_a, binary_b) ==
    [i \in 1..OctetLen |-> XorBit(binary_a[i], binary_b[i])]

(***************************************************************************)
(* Validation.                                                             *)
(***************************************************************************)
\* validate_loop without the test for negative values.
RECURSIVE validate_loop_nolower(_, _)
validate_loop_nolower(decimal_list, i) ==
    IF i > Len(decimal_list) THEN Ok("NoneType", <<>>)
    ELSE IF decimal_list[i] > ByteMax
         THEN Err("Decimal value must be between 0-255", decimal_list[i], 0)
         ELSE validate_loop_nolower(decimal_list, i + 1)

\* The loop of _validate_decimal_range from element i on: the error of the
\* first element outside 0..255, or a normal return.
RECURSIVE validate_loop(_, _)
validate_loop(decimal_list, i) ==
    IF i > Len(decimal_list) THEN Ok("NoneType", <<>>)
    ELSE IF decimal_list[i] < 0 \/ decimal_list[i] > ByteMax
         THEN Err("Decimal value must be between 0-255", decimal_list[i], 0)
         ELSE validate_loop(decimal_list, i + 1)

validate_decimal_range(decimal_list) == validate_loop(decimal_list, 1)

\* BadOctet testing the length alone.
BadOctetLenOnly(binary) == Len(binary) # OctetLen

\* len(binary) != 8 or not all(bit in "01" for bit in binary)
BadOctet(binary) ==
    \/ Len(binary) # OctetLen
    \/ ~ \A k \in 1..Len(binary) : binary[k] \in {Chr(48), Chr(49)}

\* The validation loop that opens binary_to_hex, binary_to_text and
\* binary_to_decimal.
RECURSIVE validate_binary_loop(_, _)
validate_binary_loop(binary_list, i) ==
    IF i > Len(binary_list) THEN Ok("NoneType", <<>>)
    ELSE IF BadOctet(binary_list[i])
         THEN Err("Binary string must be 8 bits with only 0s and 1s", binary_list[i], 0)
         ELSE validate_binary_loop(binary_list, i + 1)

validate_binary(binary_list) == validate_binary_loop(binary_list, 1)

(***************************************************************************)
(* Conversions from decimal lists.                                         *)
(***************************************************************************)
\* s += f(x) for each x of a list, f(x) a string.
RECURSIVE Concat(_)
Concat(strings) ==
    IF strings = <<>> THEN <<>> ELSE Head(strings) \o Concat(Tail(strings))

decimal_to_text(decimal_list) ==
    LET v == validate_decimal_range(decimal_list)
    IN  IF Kind(v) # "ok" THEN v
        ELSE Ok("str", [i \in 1..Len(decimal_list) |-> d_to_t(decimal_list[i])])

decimal_to_binary(decimal_list) ==
    LET v == validate_decimal_range(decimal_list)
    IN  IF Kind(v) # "ok" THEN v
        ELSE Ok("list[str]", [i \in 1..Len(decimal_list) |-> d_to_b(decimal_list[i])])

\* as_single_value=True: the argument is one number, and is not validated.
decimal_to_hex_single(decimal) == Ok("str", d_to_h(decimal))

decimal_to_hex(decimal_list) ==
    LET v == validate_decimal_range(decimal_list)
    IN  IF Kind(v) # "ok" THEN v
        ELSE Ok("str", Concat([i \in 1..Len(decimal_list) |-> d_to_h(decimal_list[i])]))

(***************************************************************************)
(* Conversions from text.                                                  *)
(***************************************************************************)
text_to_decimal(text) ==
    LET stripped == StripNL(text)
    IN  Ok("list[int]", [i \in 1..Len(stripped) |-> t_to_d(stripped[i])])

text_to_hex(text) ==
    Ok("str", Concat([i \in 1..Len(text) |-> d_to_h(t_to_d(text[i]))]))

text_to_binary(text) ==
    Ok("list[str]", [i \in 1..Len(text) |-> d_to_b(t_to_d(text[i]))])

(***************************************************************************)
(* Conversions from hex strings.                                           *)
(***************************************************************************)
\* StripPrefix leaving the prefix in place.
StripPrefixNone(hex_string) == hex_string

\* if hex_string.startswith("0x"): hex_string = hex_string[2:]
StripPrefix(hex_string) ==
    IF StartsWith0x(hex_string) THEN SliceFrom(hex_string, 2) ELSE hex_string

\* HexList of the complete pairs only: a trailing single digit is left out.
HexListWhole(hex_string) ==
    [k \in 1..(Len(hex_string) \div 2) |->
        Slice(hex_string, 2 * (k - 1), 2 * k)]

\* [hex_string[i:i+2] for i in range(0, len(hex_string), 2)]
HexList(hex_string) ==
    [k \in 1..((Len(hex_string) + 1) \div 2) |->
        Slice(hex_string, 2 * (k - 1), 2 * k)]

\* The loop of hex_to_decimal over hex_list from element i on.
RECURSIVE hex_to_decimal_loop(_, _, _, _)
hex_to_decimal_loop(hex_string, hex_list, i, decimal_list) ==
    IF i > Len(hex_list) THEN Ok("list[int]", decimal_list)
    ELSE LET p == PyInt16(hex_list[i])
         IN  IF ~p.ok THEN Err("Invalid hex string", hex_string, i - 1)
             ELSE hex_to_decimal_loop(hex_string, hex_list, i + 1,
                                      Append(decimal_list, p.v))

hex_to_decimal(hex_string, as_single_value) ==
    LET stripped == StripPrefix(hex_string)
    IN  IF as_single_value
        THEN LET p == PyInt16(stripped)
             IN  IF p.ok THEN Ok("int", p.v) ELSE Err("Invalid hex string", stripped, 0)
        ELSE hex_to_decimal_loop(stripped, HexList(stripped), 1, <<>>)

\* The loop of hex_to_text over hex_list from element i on.
RECURSIVE hex_to_text_loop(_, _, _, _)
hex_to_text_loop(hex_string, hex_list, i, text) ==
    IF i > Len(hex_list) THEN Ok("str", text)
    ELSE LET p == PyInt16(hex_list[i])
         IN  IF ~p.ok THEN Err("Invalid hex string", hex_string, i - 1)
             ELSE IF p.v < 0 \/ p.v > ByteMax
                  THEN Err("Hex value must convert to 0-255", hex_list[i], i - 1)
                  ELSE hex_to_text_loop(hex_string, hex_list, i + 1,
                                        Append(text, Chr(p.v)))

hex_to_text(hex_string) ==
    IF hex_string = <<>> THEN Ok("str", <<>>)
    ELSE LET stripped == StripPrefix(hex_string)
         IN  hex_to_text_loop(stripped, HexList(stripped), 1, <<>>)

\* The loop of hex_to_binary over hex_list from element i on.
RECURSIVE hex_to_binary_loop(_, _, _, _)
hex_to_binary_loop(hex_string, hex_list, i, binary_list) ==
    IF i > Len(hex_list) THEN Ok("list[str]", binary_list)
    ELSE LET p == PyInt16(hex_list[i])
         IN  IF ~p.ok THEN Err("Invalid hex string", hex_string, i - 1)
             ELSE IF p.v < 0 \/ p.v > ByteMax
                  THEN Err("Hex value must convert to 0-255", hex_list[i], i - 1)
                  ELSE hex_to_binary_loop(hex_string, hex_list, i + 1,
                                          Append(binary_list, d_to_b(p.v)))

hex_to_binary(hex_string) ==
    LET stripped == StripPrefix(hex_string)
    IN  hex_to_binary_loop(stripped, HexList(stripped), 1, <<>>)

(***************************************************************************)
(* Conversions from lists of binary strings.                               *)
(***************************************************************************)
binary_to_hex(binary_list) ==
    LET v == validate_binary(binary_list)
    IN  IF Kind(v) # "ok" THEN v
        ELSE Ok("str", Concat([i \in 1..Len(binary_list) |-> d_to_h(b_to_d(binary_list[i]))]))

binary_to_text(binary_list) ==
    LET v == validate_binary(binary_list)
    IN  IF Kind(v) # "ok" THEN v
        ELSE Ok("str", [i \in 1..Len(binary_list) |-> d_to_t(b_to_d(binary_list[i]))])

binary_to_decimal(binary_list) ==
    LET v == validate_binary(binary_list)
    IN  IF Kind(v) # "ok" THEN v
        ELSE Ok("list[int]", [i \in 1..Len(binary_list) |-> b_to_d(binary_list[i])])

(***************************************************************************)
(* XOR.                                                                    *)
(***************************************************************************)
xor_text(text_a, text_b) ==
    LET binary_list_a == Value(text_to_binary(text_a))
        binary_list_b == Value(text_to_binary(text_b))
        binary_list_c ==
            [i \in 1..Min(Len(binary_list_a), Len(binary_list_b)) |->
                xor_b(binary_list_a[i], binary_list_b[i])]
    IN  binary_to_text(binary_list_c)

xor_decimals(decimal_list_a, decimal_list_b) ==
    LET va == validate_decimal_range(decimal_list_a)
        vb == validate_decimal_range(decimal_list_b)
    IN  IF Kind(va) # "ok" THEN va
        ELSE IF Kind(vb) # "ok" THEN vb
        ELSE Ok("list[int]", [i \in 1..Min(Len(decimal_list_a), Len(decimal_list_b)) |->
                    b_to_d(xor_b(d_to_b(decimal_list_a[i]), d_to_b(decimal_list_b[i])))])

(***************************************************************************)
(* The arguments the calls are made with.                                  *)
(***************************************************************************)
\* All sequences over S of length at most n.
SeqsUpTo(S, n) == UNION {[1..k -> S] : k \in 0..n}

Bytes == 0..ByteMax

\* Integers in and around the byte range.
Decimals == (0 - Margin)..(ByteMax + Margin)

\* Elements of decimal lists: the ends of the range, both neighbours outside
\* it, the newline and a letter.
SampleDecimals == {-1, 0, 10, 65, 255, 256}

\* The code points of "Hello".
Hello == <<72, 101, 108, 108, 111>>

\* Characters of texts: newline, space, "A", code point 255 and two above it.
SampleChars == {Chr(n) : n \in {10, 32, 65, 255, 256, 8364}}

\* Characters of hex strings: 0 1 f F x z + - space _
HexAlphabet == {Chr(n) : n \in {48, 49, 102, 70, 120, 122, 43, 45, 32, 95}}

\* Hex strings, bare and behind a "0x".
HexStrings ==
    LET bodies == SeqsUpTo(HexAlphabet, MaxHexLen)
    IN  bodies \cup {Str(<<48, 120>>) \o b : b \in bodies}

\* Every well-formed octet.
Octets == [1..OctetLen -> {Chr(48), Chr(49)}]

\* Elements of binary lists: four octets, then a 7-character and a 9-character
\* string, one with a "2" in it and the empty string.
SampleBinaries ==
    { Str(<<48, 48, 48, 48, 48, 48, 48, 48>>),
      Str(<<48, 49, 48, 48, 48, 48, 48, 49>>),
      Str(<<48, 48, 48, 48, 49, 48, 49, 48>>),
      Str(<<49, 49, 49, 49, 49, 49, 49, 49>>),
      Str(<<49, 49, 49, 49, 49, 49, 49>>),
      Str(<<48, 48, 48, 48, 48, 48, 48, 48, 49>>),
      Str(<<48, 49, 48, 48, 48, 48, 48, 50>>),
      <<>> }

\* Pairs of short decimal lists, and every pair of one-byte lists.
XorDecimalArgs ==
    (SeqsUpTo(SampleDecimals, MaxXorLen) \X SeqsUpTo(SampleDecimals, MaxXorLen))
    \cup {<<(<<a>>), (<<b>>)>> : a \in Bytes, b \in Bytes}

(***************************************************************************)
(* The state machine: one action per method of Converter.                  *)
(***************************************************************************)
\* A call of method op with the arguments a and b (<<>> for none) and the
\* keyword argument as_single_value (FALSE, its default, where there is none).
Call(op, as_single_value, a, b) == <<op, as_single_value, a, b>>

\* The parts of the call.
CallOp == call[1]

CallFlag == call[2]

CallA == call[3]

CallB == call[4]

\* An exception that is not ConversionError leaves the method uncaught.
Uncaught(name) == <<name, "", <<>>, 0>>

NoCall == Call("none", FALSE, <<>>, <<>>)

NoResult == <<"none", "", <<>>, 0>>

\* No call is in progress: the converter is ready for the next one.
Idle == CallOp = "none"

Init ==
    /\ call = NoCall
    /\ res = NoResult

\* The caller takes the outcome of the call; the converter keeps nothing of it.
Return ==
    /\ ~Idle
    /\ call' = NoCall
    /\ res' = NoResult

DecimalToText ==
    /\ Idle
    /\ \E decimal_list \in SeqsUpTo(SampleDecimals, MaxListLen) :
           /\ call' = Call("decimal_to_text", FALSE, decimal_list, <<>>)
           /\ res' = decimal_to_text(decimal_list)

DecimalToBinary ==
    /\ Idle
    /\ \E decimal_list \in SeqsUpTo(SampleDecimals, MaxListLen) :
           /\ call' = Call("decimal_to_binary", FALSE, decimal_list, <<>>)
           /\ res' = decimal_to_binary(decimal_list)

DecimalToHex ==
    /\ Idle
    /\ \E decimal_list \in SeqsUpTo(SampleDecimals, MaxListLen) \cup {Hello} :
           /\ call' = Call("decimal_to_hex", FALSE, decimal_list, <<>>)
           /\ res' = decimal_to_hex(decimal_list)

DecimalToHexSingle ==
    /\ Idle
    /\ \E decimal \in Decimals :
           /\ call' = Call("decimal_to_hex", TRUE, decimal, <<>>)
           /\ res' = decimal_to_hex_single(decimal)

TextToDecimal ==
    /\ Idle
    /\ \E text \in SeqsUpTo(SampleChars, MaxTextLen) :
           /\ call' = Call("text_to_decimal", FALSE, text, <<>>)
           /\ res' = text_to_decimal(text)

TextToHex ==
    /\ Idle
    /\ \E text \in SeqsUpTo(SampleChars, MaxTextLen) :
           /\ call' = Call("text_to_hex", FALSE, text, <<>>)
           /\ res' = text_to_hex(text)

TextToBinary ==
    /\ Idle
    /\ \E text \in SeqsUpTo(SampleChars, MaxTextLen) :
           /\ call' = Call("text_to_binary", FALSE, text, <<>>)
           /\ res' = text_to_binary(text)

HexToDecimal ==
    /\ Idle
    /\ \E hex_string \in HexStrings, as_single_value \in BOOLEAN :
           /\ call' = Call("hex_to_decimal", as_single_value, hex_string, <<>>)
           /\ res' = hex_to_decimal(hex_string, as_single_value)

HexToText ==
    /\ Idle
    /\ \E hex_string \in HexStrings :
           /\ call' = Call("hex_to_text", FALSE, hex_string, <<>>)
           /\ res' = hex_to_text(hex_string)

HexToBinary ==
    /\ Idle
    /\ \E hex_string \in HexStrings :
           /\ call' = Call("hex_to_binary", FALSE, hex_string, <<>>)
           /\ res' = hex_to_binary(hex_string)

BinaryToHex ==
    /\ Idle
    /\ \E binary_list \in SeqsUpTo(SampleBinaries, MaxBinLen) :
           /\ call' = Call("binary_to_hex", FALSE, binary_list, <<>>)
           /\ res' = binary_to_hex(binary_list)

BinaryToText ==
    /\ Idle
    /\ \E binary_list \in SeqsUpTo(SampleBinaries, MaxBinLen) :
           /\ call' = Call("binary_to_text", FALSE, binary_list, <<>>)
           /\ res' = binary_to_text(binary_list)

BinaryToDecimal ==
    /\ Idle
    /\ \E binary_list \in SeqsUpTo(SampleBinaries, MaxBinLen) :
           /\ call' = Call("binary_to_decimal", FALSE, binary_list, <<>>)
           /\ res' = binary_to_decimal(binary_list)

XorText ==
    /\ Idle
    /\ \E text_a \in SeqsUpTo(SampleChars, MaxXorLen),
          text_b \in SeqsUpTo(SampleChars, MaxXorLen) :
           /\ call' = Call("xor_text", FALSE, text_a, text_b)
           /\ res' = xor_text(text_a, text_b)

XorDecimals ==
    /\ Idle
    /\ \E args \in XorDecimalArgs :
           /\ call' = Call("xor_decimals", FALSE, args[1], args[2])
           /\ res' = xor_decimals(args[1], args[2])

XorB ==
    /\ Idle
    /\ \E binary_a \in SampleBinaries \cap Octets, binary_b \in SampleBinaries \cap Octets :
           /\ call' = Call("xor_b", FALSE, binary_a, binary_b)
           /\ res' = Ok("str", xor_b(binary_a, binary_b))

DToB ==
    /\ Idle
    /\ \E decimal \in Decimals :
           /\ call' = Call("d_to_b", FALSE, decimal, <<>>)
           /\ res' = Ok("str", d_to_b(decimal))

\* chr() raises ValueError outside range(0x110000).
DToT ==
    /\ Idle
    /\ \E decimal \in Decimals :
           /\ call' = Call("d_to_t", FALSE, decimal, <<>>)
           /\ res' = IF decimal < 0 \/ decimal > 1114111
                     THEN Uncaught("ValueError")
                     ELSE Ok("str", <<d_to_t(decimal)>>)

DToH ==
    /\ Idle
    /\ \E decimal \in Decimals :
           /\ call' = Call("d_to_h", FALSE, decimal, <<>>)
           /\ res' = Ok("str", d_to_h(decimal))

BToD ==
    /\ Idle
    /\ \E binary_string \in Octets :
           /\ call' = Call("b_to_d", FALSE, binary_string, <<>>)
           /\ res' = Ok("int", b_to_d(binary_string))

TToD ==
    /\ Idle
    /\ \E text \in SampleChars \cup {Chr(n) : n \in Bytes} :
           /\ call' = Call("t_to_d", FALSE, <<text>>, <<>>)
           /\ res' = Ok("int", t_to_d(text))

HToD ==
    /\ Idle
    /\ \E hex_char \in SeqsUpTo(HexAlphabet, 2) :
           /\ call' = Call("h_to_d", FALSE, hex_char, <<>>)
           /\ res' = LET p == h_to_d(hex_char)
                     IN  IF p.ok THEN Ok("int", p.v) ELSE Uncaught("ValueError")

Next ==
    \/ DecimalToText
    \/ DecimalToBinary
    \/ DecimalToHex
    \/ DecimalToHexSingle
    \/ TextToDecimal
    \/ TextToHex
    \/ TextToBinary
    \/ HexToDecimal
    \/ HexToText
    \/ HexToBinary
    \/ BinaryToHex
    \/ BinaryToText
    \/ BinaryToDecimal
    \/ XorText
    \/ XorDecimals
    \/ XorB
    \/ DToB
    \/ DToT
    \/ DToH
    \/ BToD
    \/ TToD
    \/ HToD
    \/ Return

Spec == Init /\ [][Next]_vars

(***************************************************************************)
(* Notions the properties are stated with.  They are defined from the byte *)
(* arithmetic directly, not from the converter's operators.                *)
(***************************************************************************)
InRange(d) == d >= 0 /\ d <= 255

AllInRange(L) == \A i \in 1..Len(L) : InRange(L[i])

\* The first element of L outside 0..255 (L has one).
FirstOutOfRange(L) ==
    L[CHOOSE i \in 1..Len(L) :
        /\ ~InRange(L[i])
        /\ \A j \in 1..(i - 1) : InRange(L[j])]

\* Bitwise exclusive-or of two naturals.
RECURSIVE BitXor(_, _)
BitXor(a, b) ==
    IF a = 0 /\ b = 0 THEN 0
    ELSE (((a % 2) + (b % 2)) % 2) + 2 * BitXor(a \div 2, b \div 2)

\* Bit k (1 = most significant) of the byte d.
BitOf(d, k) == (d \div (2 ^ (8 - k))) % 2

\* The characters "0".."9", "a".."f".
LowerHexChars == {Chr(n) : n \in (48..57) \cup (97..102)}

\* The characters "0".."9", "a".."f", "A".."F".
HexChars == LowerHexChars \cup {Chr(n) : n \in 65..70}

\* The value of a hex digit character.
HexCharValue(c) ==
    IF c.cp <= 57 THEN c.cp - 48 ELSE IF c.cp >= 97 THEN c.cp - 87 ELSE c.cp - 55

\* The lowercase hex digit of a value 0..15.
LowerHexChar(v) == IF v < 10 THEN Chr(48 + v) ELSE Chr(97 + v - 10)

AllHexChars(s) == \A i \in 1..Len(s) : s[i] \in HexChars

\* The value of a string of hex digits read as one number.
RECURSIVE HexStringValue(_)
HexStringValue(s) ==
    IF s = <<>> THEN 0
    ELSE 16 * HexStringValue(SubSeq(s, 1, Len(s) - 1)) + HexCharValue(s[Len(s)])

\* A well-formed octet: 8 characters, each "0" or "1".
WellFormedOctet(b) ==
    Len(b) = 8 /\ \A k \in 1..8 : b[k].cp = 48 \/ b[k].cp = 49

\* The value of a well-formed octet, most significant bit first.
OctetValue(b) ==
    128 * (b[1].cp - 48) + 64 * (b[2].cp - 48) + 32 * (b[3].cp - 48)
    + 16 * (b[4].cp - 48) + 8 * (b[5].cp - 48) + 4 * (b[6].cp - 48)
    + 2 * (b[7].cp - 48) + (b[8].cp - 48)

\* The input of a hex call once a leading "0x" is taken off.
AfterPrefix(s) ==
    IF Len(s) >= 2 /\ s[1].cp = 48 /\ s[2].cp = 120 THEN SubSeq(s, 3, Len(s)) ELSE s

RangeCheckedCall ==
    \/ CallOp \in {"decimal_to_text", "decimal_to_binary", "xor_decimals"}
    \/ CallOp = "decimal_to_hex" /\ CallFlag = FALSE

\* Every decimal a range-checked call was given, in the order it checks them.
CheckedDecimals == IF CallOp = "xor_decimals" THEN CallA \o CallB ELSE CallA

HexCall == CallOp \in {"hex_to_decimal", "hex_to_text", "hex_to_binary"}

BinaryCall == CallOp \in {"binary_to_hex", "binary_to_text", "binary_to_decimal"}

(***************************************************************************)
(* The properties.                                                         *)
(***************************************************************************)

\* C1: decimal_to_text, decimal_to_binary, decimal_to_hex (default mode) and
\* xor_decimals raise ConversionError, and return nothing, exactly when some
\* element they are given is outside 0..255 (for xor_decimals: of either list,
\* also beyond the shorter list's length), and the error carries the first such
\* element in list order; with every element in 0..255 they do not raise.
C1_RangeRejection ==
    RangeCheckedCall =>
        IF AllInRange(CheckedDecimals)
        THEN Kind(res) = "ok"
        ELSE /\ Kind(res) = "ConversionError"
             /\ Value(res) = FirstOutOfRange(CheckedDecimals)

\* xor_decimals rejected a list pair whose only bad element lies in the second
\* list beyond the length of the first.
C1_Witness ==
    /\ CallOp = "xor_decimals"
    /\ Len(CallA) >= 1
    /\ Len(CallA) < Len(CallB)
    /\ AllInRange(CallA)
    /\ AllInRange(SubSeq(CallB, 1, Len(CallA)))
    /\ ~InRange(CallB[Len(CallB)])
    /\ Kind(res) = "ConversionError"
    /\ Value(res) = CallB[Len(CallB)]

\* C2: on lists of bytes xor_decimals raises nothing and returns a list as long
\* as the shorter argument whose element i is the bitwise exclusive-or of the
\* arguments' elements i, again a byte.
C2_XorDecimals ==
    (CallOp = "xor_decimals" /\ AllInRange(CallA) /\ AllInRange(CallB)) =>
        /\ Kind(res) = "ok"
        /\ Len(Value(res)) = (IF Len(CallA) <= Len(CallB) THEN Len(CallA) ELSE Len(CallB))
        /\ \A i \in 1..Len(Value(res)) :
              /\ Value(res)[i] = BitXor(CallA[i], CallB[i])
              /\ InRange(Value(res)[i])

\* xor_decimals([65], [32]) returned [97].
C2_Witness ==
    /\ CallOp = "xor_decimals"
    /\ CallA = <<65>>
    /\ CallB = <<32>>
    /\ Kind(res) = "ok"
    /\ Value(res) = <<97>>

\* C3: for a byte d, d_to_b(d) is the 8 bits of d, most significant first, and
\* b_to_d reads d back; d_to_h(d) is the two lowercase hex digits of d (zero
\* padded) and h_to_d reads d back; d_to_t(d) is one character and t_to_d reads
\* d back.
C3_SingleValueRoundTrip ==
    /\ (CallOp = "d_to_b" /\ InRange(CallA)) =>
          /\ Kind(res) = "ok"
          /\ Len(Value(res)) = 8
          /\ \A k \in 1..8 : Value(res)[k] = Chr(48 + BitOf(CallA, k))
          /\ b_to_d(Value(res)) = CallA
    /\ (CallOp = "d_to_h" /\ InRange(CallA)) =>
          /\ Kind(res) = "ok"
          /\ Len(Value(res)) = 2
          /\ Value(res)[1] = LowerHexChar(CallA \div 16)
          /\ Value(res)[2] = LowerHexChar(CallA % 16)
          /\ h_to_d(Value(res)).ok
          /\ h_to_d(Value(res)).v = CallA
    /\ (CallOp = "d_to_t" /\ InRange(CallA)) =>
          /\ Kind(res) = "ok"
          /\ Len(Value(res)) = 1
          /\ t_to_d(Value(res)[1]) = CallA

\* d_to_h(5) returned "05".
C3_Witness ==
    /\ CallOp = "d_to_h"
    /\ CallA = 5
    /\ Kind(res) = "ok"
    /\ Value(res) = Str(<<48, 53>>)

\* C4: text_to_decimal(decimal_to_text(L)) = L for every list L of bytes, and
\* decimal_to_text(text_to_decimal(t)) = t for every text t of characters with
\* code points in 0..255, newlines at either end included.
C4_TextRoundTrip ==
    /\ (CallOp = "decimal_to_text" /\ AllInRange(CallA)) =>
          /\ Kind(res) = "ok"
          /\ text_to_decimal(Value(res)) = Ok("list[int]", CallA)
    /\ (CallOp = "text_to_decimal" /\ \A i \in 1..Len(CallA) : InRange(CallA[i].cp)) =>
          /\ Kind(res) = "ok"
          /\ decimal_to_text(Value(res)) = Ok("str", CallA)

\* C5: on a list L of bytes decimal_to_hex (default mode) returns, in order, the
\* two lowercase hex digits of each element, 2 * len(L) characters with no "0x"
\* in front, and hex_to_decimal (default mode) reads L back;
\* decimal_to_hex([72,101,108,108,111]) is "48656c6c6f".
C5_DecimalToHex ==
    (CallOp = "decimal_to_hex" /\ CallFlag = FALSE /\ AllInRange(CallA)) =>
        /\ Kind(res) = "ok"
        /\ Len(Value(res)) = 2 * Len(CallA)
        /\ \A i \in 1..Len(CallA) :
              /\ Value(res)[2 * i - 1] = LowerHexChar(CallA[i] \div 16)
              /\ Value(res)[2 * i] = LowerHexChar(CallA[i] % 16)
        /\ AfterPrefix(Value(res)) = Value(res)
        /\ hex_to_decimal(Value(res), FALSE) = Ok("list[int]", CallA)
        /\ CallA = Hello =>
              Value(res) = Str(<<52, 56, 54, 53, 54, 99, 54, 99, 54, 102>>)

\* decimal_to_hex([72,101,108,108,111]) returned "48656c6c6f".
C5_Witness ==
    /\ CallOp = "decimal_to_hex"
    /\ CallFlag = FALSE
    /\ CallA = Hello
    /\ Kind(res) = "ok"
    /\ Value(res) = Str(<<52, 56, 54, 53, 54, 99, 54, 99, 54, 102>>)

\* C6: hex_to_decimal (both modes), hex_to_text and hex_to_binary raise
\* ConversionError whenever their input, a leading "0x" taken off, holds a
\* character that is not a base-16 digit.
C6_MalformedHexRaises ==
    (HexCall /\ ~AllHexChars(AfterPrefix(CallA))) => Kind(res) = "ConversionError"

\* C7: binary_to_hex, binary_to_text and binary_to_decimal raise ConversionError
\* with nothing converted when some element, anywhere in the list, is not 8
\* characters of "0"/"1"; otherwise they return one converted item per element,
\* in order.
C7_BinaryValidation ==
    BinaryCall =>
        IF \A i \in 1..Len(CallA) : WellFormedOctet(CallA[i])
        THEN /\ Kind(res) = "ok"
             /\ CallOp = "binary_to_decimal" =>
                   /\ Len(Value(res)) = Len(CallA)
                   /\ \A i \in 1..Len(CallA) : Value(res)[i] = OctetValue(CallA[i])
             /\ CallOp = "binary_to_text" =>
                   /\ Len(Value(res)) = Len(CallA)
                   /\ \A i \in 1..Len(CallA) : Value(res)[i] = Chr(OctetValue(CallA[i]))
             /\ CallOp = "binary_to_hex" =>
                   /\ Len(Value(res)) = 2 * Len(CallA)
                   /\ \A i \in 1..Len(CallA) :
                         /\ Value(res)[2 * i - 1] = LowerHexChar(OctetValue(CallA[i]) \div 16)
                         /\ Value(res)[2 * i] = LowerHexChar(OctetValue(CallA[i]) % 16)
        ELSE /\ Kind(res) = "ConversionError"
             /\ Done(res) = 0

\* binary_to_text rejected a list whose first element is an octet and whose
\* second is 9 characters long.
C7_Witness ==
    /\ CallOp = "binary_to_text"
    /\ Len(CallA) = 2
    /\ WellFormedOctet(CallA[1])
    /\ Len(CallA[2]) = 9
    /\ Kind(res) = "ConversionError"
    /\ Value(res) = CallA[2]

\* C8 as stated: hex_to_decimal in default mode, on 2k+1 hex digits, raises
\* nothing and returns k elements, the values of the k complete pairs: the last
\* digit is dropped.
C8_OddDigitDropped ==
    (CallOp = "hex_to_decimal" /\ CallFlag = FALSE
        /\ AllHexChars(CallA) /\ Len(CallA) % 2 = 1) =>
        /\ Kind(res) = "ok"
        /\ Len(Value(res)) = (Len(CallA) - 1) \div 2
        /\ \A i \in 1..((Len(CallA) - 1) \div 2) :
              Value(res)[i] = 16 * HexCharValue(CallA[2 * i - 1]) + HexCharValue(CallA[2 * i])

\* C8 as amended: hex_to_decimal in default mode, on 2k+1 hex digits, raises
\* nothing and returns k+1 elements: the values of the k complete pairs in
\* order, then the value of the last digit read alone.
C8_OddDigitKept ==
    (CallOp = "hex_to_decimal" /\ CallFlag = FALSE
        /\ AllHexChars(CallA) /\ Len(CallA) % 2 = 1) =>
        /\ Kind(res) = "ok"
        /\ Len(Value(res)) = (Len(CallA) + 1) \div 2
        /\ \A i \in 1..((Len(CallA) - 1) \div 2) :
              Value(res)[i] = 16 * HexCharValue(CallA[2 * i - 1]) + HexCharValue(CallA[2 * i])
        /\ Value(res)[Len(Value(res))] = HexCharValue(CallA[Len(CallA)])

\* hex_to_decimal in default mode returned two elements for three hex digits.
C8_Witness ==
    /\ CallOp = "hex_to_decimal"
    /\ CallFlag = FALSE
    /\ AllHexChars(CallA)
    /\ Len(CallA) = 3
    /\ Kind(res) = "ok"
    /\ Len(Value(res)) = 2

\* C9: for a non-empty string s of hex digits, each of hex_to_decimal (either
\* mode), hex_to_text and hex_to_binary gives for "0x" + s what it gives for s;
\* in single-value mode that is the value of s as one number, however large.
C9_PrefixIgnored ==
    (HexCall /\ Len(CallA) >= 3 /\ AfterPrefix(CallA) # CallA
        /\ AllHexChars(AfterPrefix(CallA))) =>
        LET s == AfterPrefix(CallA)
        IN  /\ Kind(res) = "ok"
            /\ CallOp = "hex_to_decimal" =>
                  /\ res = hex_to_decimal(s, CallFlag)
                  /\ CallFlag = TRUE => Value(res) = HexStringValue(s)
            /\ CallOp = "hex_to_text" => res = hex_to_text(s)
            /\ CallOp = "hex_to_binary" => res = hex_to_binary(s)

\* hex_to_decimal("0x1ff", as_single_value=True) returned 511.
C9_Witness ==
    /\ CallOp = "hex_to_decimal"
    /\ CallFlag = TRUE
    /\ CallA = Str(<<48, 120, 49, 102, 102>>)
    /\ Kind(res) = "ok"
    /\ Value(res) = 511

\* A code point as d_to_b reads it: anything above 255 counts as 255.
Saturated(n) == IF n > 255 THEN 255 ELSE n

\* C10: d_to_b returns 8 characters of "0"/"1" for every integer, all "1" from
\* 255 up and all "0" from 0 down; so text_to_binary and xor_text never raise,
\* a character above code point 255 counts as 255, and xor_text returns as many
\* characters as its shorter argument has, each the exclusive-or of the two
\* (saturated) code points, hence within 0..255.
C10_Saturation ==
    /\ CallOp = "d_to_b" =>
          /\ Kind(res) = "ok"
          /\ Len(Value(res)) = 8
          /\ \A k \in 1..8 : Value(res)[k].cp \in {48, 49}
          /\ CallA >= 255 => \A k \in 1..8 : Value(res)[k].cp = 49
          /\ CallA <= 0 => \A k \in 1..8 : Value(res)[k].cp = 48
    /\ CallOp = "text_to_binary" =>
          /\ Kind(res) = "ok"
          /\ Len(Value(res)) = Len(CallA)
          /\ \A i \in 1..Len(CallA) :
                /\ Len(Value(res)[i]) = 8
                /\ \A k \in 1..8 :
                      Value(res)[i][k].cp = 48 + BitOf(Saturated(CallA[i].cp), k)
    /\ CallOp = "xor_text" =>
          /\ Kind(res) = "ok"
          /\ Len(Value(res)) = (IF Len(CallA) <= Len(CallB) THEN Len(CallA) ELSE Len(CallB))
          /\ \A i \in 1..Len(Value(res)) :
                /\ Value(res)[i].cp =
                      BitXor(Saturated(CallA[i].cp), Saturated(CallB[i].cp))
                /\ InRange(Value(res)[i].cp)

\* xor_text returned a character for a position that holds a character above
\* code point 255, with arguments of different lengths.
C10_Witness ==
    /\ CallOp = "xor_text"
    /\ Len(CallA) # Len(CallB)
    /\ Len(Value(res)) >= 1
    /\ CallA[1].cp > 255
    /\ CallB[1].cp <= 255
    /\ Kind(res) = "ok"
    /\ Value(res)[1].cp = BitXor(255, CallB[1].cp)

=============================================================================
